---- MODULE Spec2Model ----
(***************************************************************************)
(* Model of refiner_api: check_data_frame / check_addresses (main.py) and  *)
(* ApiCall.call_api (classes.py).  One call of check_data_frame is one     *)
(* behaviour: the planner loop slices the data frame into batches,         *)
(* process_data dispatches them (thread pool or serial loop), every batch  *)
(* runs check_batch's retry loop, and pd.concat joins the batch results.   *)
(***************************************************************************)
EXTENDS Integers, Sequences, FiniteSets, TLC

\* ---------------------------------------------------------------- bounds
MaxRows == 3
MaxBatchSize == 2
MaxPool == 2
MaxFaults == 1

\* ------------------------------------------------------ program constants
RetryLimit == 10
SleepTimer == 1
SleepTimerIncrement == 3
MAX_THREADS == 30

VARIABLES
    server_info,        \* ApiServerInfo: per configured server, what its check_api meets
    si,                 \* set_apis: position of `for si in api_server_info`
    api_servers,        \* set_apis: api_servers, as positions of server_info
    vendor,             \* the field values the vendor puts in every row of a full response
    in_index,           \* in_df.index: the original index label of every input row
    api_batch_size,     \* ini.api_batch_size
    nservers,           \* len(ini.api_servers)
    multi_thread_mode,  \* ini.multi_threaded_mode
    down,               \* endpoints that refuse every connection during the call
    server_sleep_timer, \* ApiServer.sleep_timer, the class attribute every server reads
    faults,             \* sporadic connection errors the network may still produce
    pc,                 \* position of the calling thread
    first_row,          \* check_df: first_row
    batch_count,        \* check_df: batch_count
    batch_list,         \* api_data / batch_list (one list object): index of each batch
    thread_count,       \* process_data: thread_count
    s_id,               \* process_data: s_id
    max_workers,        \* ThreadPoolExecutor(max_workers=...)
    cursor,             \* position of the serial for loop / of executor.map's result iterator
    proc_list,          \* the ApiCall objects: [api_server_id, index]
    status,             \* per ApiCall: state of its check_batch call
    retry_count,        \* check_batch: retry_count
    calls_failed,       \* check_batch: calls_failed
    sleep_timer,        \* check_batch: sleep_timer
    result,             \* check_batch: result (a table: sequence of rows)
    sends,              \* history: server id of every requests.post of the batch
    slept,              \* history: every time.sleep duration of the batch
    outcome,            \* history: what the last requests.post of the batch met
    process_results,    \* process_data: process_results
    chunk_df            \* process_data: chunk_df, the returned data frame

inputVars == <<server_info, si, api_servers, vendor, in_index, api_batch_size, nservers,
               multi_thread_mode, down, server_sleep_timer>>
planVars == <<first_row, batch_count>>
assignVars == <<thread_count, s_id, max_workers>>
frameVars == <<status, retry_count, calls_failed, sleep_timer, result, sends, slept, outcome>>
vars == <<inputVars, faults, pc, planVars, batch_list, assignVars, cursor, proc_list,
          frameVars, process_results, chunk_df>>

Min(a, b) == IF a < b THEN a ELSE b

\* --------------------------------------------------------------- strings
\* A string value of the tables is the sequence of its characters.
Zeros(n) == [i \in 1..n |-> "0"]

Last(s, n) == SubSeq(s, Len(s) - n + 1, Len(s))

\* r.split('.')[0]
RECURSIVE BeforeDot(_)
BeforeDot(s) ==
    IF s = <<>> \/ Head(s) = "." THEN <<>> ELSE <<Head(s)>> \o BeforeDot(Tail(s))

\* PadId that keeps the first characters instead of the last ones.
PadIdFirst(r, width) == SubSeq(Zeros(width) \o BeforeDot(r), 1, width)

\* ('00000000' + r.split('.')[0])[-8:] and its 12 character twin
PadId(r, width) == Last(Zeros(width) \o BeforeDot(r), width)

UdprnWidth == 8
UprnWidth == 12

\* -------------------------------------------------------------- the input
\* The data frame's index labels are not the row positions.
IndexOf(n) == [p \in 1..n |-> 100 + p]

\* The values the vendor puts in every row of a full response, unless the
\* specification draws others.
VendorRow ==
    [UDPRN |-> <<"1", "2", "3", ".", "0">>,
     UPRN |-> <<"4", "5", ".", "0">>,
     Closeness |-> <<"9", "7", ".", "5">>]

\* ------------------------------------------------------------- BatchPlanner
\* batch_end = first_row + ini.api_batch_size
BatchEnd(first, size) == first + size

\* Slice with the labels renumbered from the row positions (as reset_index would).
SliceRenumbered(index, first, end) ==
    [p \in 1..(Min(end, Len(index)) - first) |-> first + p - 1]

\* in_df.iloc[first_row:batch_end].index
Slice(index, first, end) == SubSeq(index, first + 1, Min(end, Len(index)))

\* ----------------------------------------------------- ApiCall.call_api
\* What one requests.post can meet: the parsed table's shape.  fields tells
\* whether UDPRN, UPRN and Closeness are all among the columns.
RespRows(m) == {0, m} \cup (IF m > 1 THEN {m - 1} ELSE {})

Responses(m) ==
    {r \in [cols : {0, 2, 3}, rows : RespRows(m), fields : BOOLEAN] :
        /\ (r.fields => r.cols >= 3)
        /\ (r.cols = 0 => r.rows = 0)}

\* if batch.shape[1] > 2
IsFull(resp) == resp.cols > 2

\* the three .apply(...) normalisations of a full response
NormalRow(v) ==
    [UDPRN |-> PadId(v.UDPRN, UdprnWidth),
     UPRN |-> PadId(v.UPRN, UprnWidth),
     Closeness |-> BeforeDot(v.Closeness)]

\* the else branch: scalar columns broadcast over the rows the table has
SentinelRow ==
    [UDPRN |-> Zeros(UdprnWidth), UPRN |-> Zeros(UprnWidth), Closeness |-> <<"0">>]

\* the table before batch.index is assigned: one row per row of the response
ParsedTable(resp) ==
    [p \in 1..resp.rows |-> IF IsFull(resp) THEN NormalRow(vendor) ELSE SentinelRow]

\* batch['UDPRN'] on a table without that column: KeyError -> ApiSetupError
MissingField(resp) == IsFull(resp) /\ ~resp.fields

\* batch.index = self.index raises ValueError unless the lengths agree
LengthMismatch(table, index) == Len(table) # Len(index)

CallApiRaises(resp, index) ==
    MissingField(resp) \/ LengthMismatch(ParsedTable(resp), index)

\* SetIndex that leaves the parsed table's own row numbers 0, 1, ... as labels.
SetIndexDefault(table, index) ==
    [p \in 1..Len(table) |->
        [idx |-> p - 1, UDPRN |-> table[p].UDPRN, UPRN |-> table[p].UPRN,
         Closeness |-> table[p].Closeness]]

\* batch.index = self.index
SetIndex(table, index) ==
    [p \in 1..Len(table) |->
        [idx |-> index[p], UDPRN |-> table[p].UDPRN, UPRN |-> table[p].UPRN,
         Closeness |-> table[p].Closeness]]

CallApi(resp, index) == SetIndex(ParsedTable(resp), index)

OutcomeOf(resp) ==
    IF MissingField(resp) THEN "missing_field"
    ELSE IF IsFull(resp) THEN "full" ELSE "degraded"

\* ------------------------------------------------------------ check_batch
\* NextSleepTimer without the increment.
NextSleepTimerFlat(t) == t

\* sleep_timer += api_server.sleep_timer_increment
NextSleepTimer(t) == t + SleepTimerIncrement

\* LoopContinues with the test off by one.
LoopContinuesOnce(rc) == rc <= RetryLimit

\* while retry_count < 10
LoopContinues(rc) == rc < RetryLimit

\* retry_count = 10 after a DataFrame came back
AfterSuccess(rc) == RetryLimit

Server(j) == proc_list[j].api_server_id

\* RetrySwitch with a fail-over to the next server on every call.
RetrySwitchOn == TRUE

\* call_api's `self.get_server()`: switch keeps its default
RetrySwitch == FALSE

\* ApiCall.get_server(switch)
GetServer(id, switch) ==
    IF switch THEN (IF id + 1 >= nservers THEN 0 ELSE id + 1) ELSE id

\* The server a call_api of ApiCall j posts to.
Target(j) == GetServer(Server(j), RetrySwitch)

\* api.api_servers[api.api_server_id] at check_batch's entry: IndexError when
\* the pool has no such server.
EnterStatus(id) == IF id < nservers THEN "running" ELSE "raised"

\* The frame of a check_batch call at its first line.
EnterFrame(j) ==
    /\ status' = [status EXCEPT ![j] = "running"]
    /\ retry_count' = [retry_count EXCEPT ![j] = 0]
    /\ calls_failed' = [calls_failed EXCEPT ![j] = 0]
    /\ sleep_timer' = [sleep_timer EXCEPT ![j] = server_sleep_timer]
    /\ result' = [result EXCEPT ![j] = <<>>]

\* Refused that lengthens the backoff stored on the server class as well.
RefusedShared(j) ==
    /\ j \in DOMAIN status /\ status[j] = "running"
    /\ LoopContinues(retry_count[j])
    /\ ~(Target(j) \notin down /\ faults = 0)
    /\ faults' = IF Target(j) \in down THEN faults ELSE faults - 1
    /\ retry_count' = [retry_count EXCEPT ![j] = @ + 1]
    /\ calls_failed' = [calls_failed EXCEPT ![j] = @ + 1]
    /\ slept' = [slept EXCEPT ![j] = Append(@, sleep_timer[j])]
    /\ sleep_timer' = [sleep_timer EXCEPT ![j] = NextSleepTimer(@)]
    /\ server_sleep_timer' = NextSleepTimer(server_sleep_timer)
    /\ sends' = [sends EXCEPT ![j] = Append(@, Target(j))]
    /\ proc_list' = [proc_list EXCEPT ![j].api_server_id = Target(j)]
    /\ outcome' = [outcome EXCEPT ![j] = "ConnectionError"]
    /\ status' = [status EXCEPT ![j] =
                    IF LoopContinues(retry_count[j] + 1) THEN "running" ELSE "done"]
    /\ UNCHANGED <<server_info, si, api_servers, vendor, in_index, api_batch_size, nservers,
                   multi_thread_mode, down, pc, planVars, batch_list, assignVars, cursor,
                   result, process_results, chunk_df>>

\* One pass of the loop whose requests.post raises ConnectionError: the except
\* branch sleeps, lengthens the backoff, and the loop test follows.
Refused(j) ==
    /\ j \in DOMAIN status /\ status[j] = "running"
    /\ LoopContinues(retry_count[j])
    /\ ~(Target(j) \notin down /\ faults = 0)
    /\ faults' = IF Target(j) \in down THEN faults ELSE faults - 1
    /\ retry_count' = [retry_count EXCEPT ![j] = @ + 1]
    /\ calls_failed' = [calls_failed EXCEPT ![j] = @ + 1]
    /\ slept' = [slept EXCEPT ![j] = Append(@, sleep_timer[j])]
    /\ sleep_timer' = [sleep_timer EXCEPT ![j] = NextSleepTimer(@)]
    /\ sends' = [sends EXCEPT ![j] = Append(@, Target(j))]
    /\ proc_list' = [proc_list EXCEPT ![j].api_server_id = Target(j)]
    /\ outcome' = [outcome EXCEPT ![j] = "ConnectionError"]
    /\ status' = [status EXCEPT ![j] =
                    IF LoopContinues(retry_count[j] + 1) THEN "running" ELSE "done"]
    /\ UNCHANGED <<inputVars, pc, planVars, batch_list, assignVars, cursor,
                   result, process_results, chunk_df>>

\* One pass of the loop whose requests.post is answered: call_api either
\* returns the indexed table (and the loop ends) or raises.
Answered(j) ==
    /\ j \in DOMAIN status /\ status[j] = "running"
    /\ LoopContinues(retry_count[j])
    /\ Target(j) \notin down
    /\ \E resp \in Responses(Len(proc_list[j].index)) :
        /\ outcome' = [outcome EXCEPT ![j] = OutcomeOf(resp)]
        /\ IF CallApiRaises(resp, proc_list[j].index)
           THEN /\ status' = [status EXCEPT ![j] = "raised"]
                /\ retry_count' = [retry_count EXCEPT ![j] = @ + 1]
                /\ UNCHANGED result
           ELSE /\ status' = [status EXCEPT ![j] =
                                IF LoopContinues(AfterSuccess(retry_count[j] + 1))
                                THEN "running" ELSE "done"]
                /\ retry_count' = [retry_count EXCEPT ![j] = AfterSuccess(@ + 1)]
                /\ result' = [result EXCEPT ![j] = CallApi(resp, proc_list[j].index)]
    /\ sends' = [sends EXCEPT ![j] = Append(@, Target(j))]
    /\ proc_list' = [proc_list EXCEPT ![j].api_server_id = Target(j)]
    /\ UNCHANGED <<inputVars, faults, pc, planVars, batch_list, assignVars, cursor,
                   calls_failed, sleep_timer, slept, process_results, chunk_df>>

\* Failed whose exception is swallowed, so that the loop goes on.
FailedRetried(j) ==
    /\ j \in DOMAIN status /\ status[j] = "running"
    /\ LoopContinues(retry_count[j])
    /\ Target(j) \notin down
    /\ retry_count' = [retry_count EXCEPT ![j] = @ + 1]
    /\ sends' = [sends EXCEPT ![j] = Append(@, Target(j))]
    /\ proc_list' = [proc_list EXCEPT ![j].api_server_id = Target(j)]
    /\ outcome' = [outcome EXCEPT ![j] = "Error"]
    /\ status' = [status EXCEPT ![j] =
                    IF LoopContinues(retry_count[j] + 1) THEN "running" ELSE "done"]
    /\ UNCHANGED <<inputVars, faults, pc, planVars, batch_list, assignVars, cursor,
                   calls_failed, sleep_timer, result, slept, process_results, chunk_df>>

\* One pass of the loop whose requests.post or read_json raises anything but
\* ConnectionError: nothing catches it.
Failed(j) ==
    /\ j \in DOMAIN status /\ status[j] = "running"
    /\ LoopContinues(retry_count[j])
    /\ Target(j) \notin down
    /\ retry_count' = [retry_count EXCEPT ![j] = @ + 1]
    /\ sends' = [sends EXCEPT ![j] = Append(@, Target(j))]
    /\ proc_list' = [proc_list EXCEPT ![j].api_server_id = Target(j)]
    /\ outcome' = [outcome EXCEPT ![j] = "Error"]
    /\ status' = [status EXCEPT ![j] = "raised"]
    /\ UNCHANGED <<inputVars, faults, pc, planVars, batch_list, assignVars, cursor,
                   calls_failed, sleep_timer, result, slept, process_results, chunk_df>>

Attempt(j) == Refused(j) \/ Answered(j) \/ Failed(j)

\* ------------------------------------------------- check_df: the planner
\* The body of `while first_row < last_row`.
PlanBatch ==
    /\ pc = "plan"
    /\ first_row < Len(in_index)
    /\ batch_list' = Append(batch_list,
                            Slice(in_index, first_row, BatchEnd(first_row, api_batch_size)))
    /\ first_row' = first_row + api_batch_size
    /\ batch_count' = batch_count + 1
    /\ UNCHANGED <<inputVars, faults, pc, assignVars, cursor, proc_list, frameVars,
                   process_results, chunk_df>>

\* if len(api_servers) > 1 or thread_objects.get('multi_thread_mode')
Concurrent == nservers > 1 \/ multi_thread_mode

\* The planner loop ends and process_data is entered.
ProcessData ==
    /\ pc = "plan"
    /\ ~(first_row < Len(in_index))
    /\ thread_count' = Len(batch_list)
    /\ pc' = IF Concurrent THEN "outer" ELSE "serial"
    /\ UNCHANGED <<inputVars, faults, planVars, batch_list, s_id, max_workers, cursor,
                   proc_list, frameVars, process_results, chunk_df>>

\* ----------------------------------------- process_data: concurrent path
\* `while len(batch_list) > 0: s_id = 0`
AssignRound ==
    /\ pc = "outer"
    /\ Len(batch_list) > 0
    /\ s_id' = 0
    /\ pc' = "inner"
    /\ UNCHANGED <<inputVars, faults, planVars, batch_list, thread_count, max_workers,
                   cursor, proc_list, frameVars, process_results, chunk_df>>

\* NextServer without the increment.
NextServerStuck(s) == s

\* s_id += 1
NextServer(s) == s + 1

\* The body of the inner while: ApiCall(api_servers, s_id, ..., batch_list.pop(0)).
AssignBatch ==
    /\ pc = "inner"
    /\ s_id < nservers /\ Len(batch_list) > 0
    /\ proc_list' = Append(proc_list, [api_server_id |-> s_id, index |-> Head(batch_list)])
    /\ batch_list' = Tail(batch_list)
    /\ s_id' = NextServer(s_id)
    /\ status' = Append(status, "pending")
    /\ retry_count' = Append(retry_count, 0)
    /\ calls_failed' = Append(calls_failed, 0)
    /\ sleep_timer' = Append(sleep_timer, 0)
    /\ result' = Append(result, <<>>)
    /\ sends' = Append(sends, <<>>)
    /\ slept' = Append(slept, <<>>)
    /\ outcome' = Append(outcome, "none")
    /\ UNCHANGED <<inputVars, faults, pc, planVars, thread_count, max_workers, cursor,
                   process_results, chunk_df>>

\* RoundDone that stays in the inner loop.
RoundDoneStuck ==
    /\ pc = "inner"
    /\ ~(s_id < nservers /\ Len(batch_list) > 0)
    /\ pc' = "inner"
    /\ UNCHANGED <<inputVars, faults, planVars, batch_list, assignVars, cursor, proc_list,
                   frameVars, process_results, chunk_df>>

\* The inner while ends: every server has had its turn, or no batch is left.
RoundDone ==
    /\ pc = "inner"
    /\ ~(s_id < nservers /\ Len(batch_list) > 0)
    /\ pc' = "outer"
    /\ UNCHANGED <<inputVars, faults, planVars, batch_list, assignVars, cursor, proc_list,
                   frameVars, process_results, chunk_df>>

\* PoolSize that ignores the number of batches.
PoolSizeFixed(n) == MAX_THREADS

\* min(thread_count, MAX_THREADS)
PoolSize(n) == Min(n, MAX_THREADS)

\* ThreadPoolExecutor(max_workers=min(thread_count, MAX_THREADS)) and the
\* submits of executor.map; max_workers <= 0 is the constructor's ValueError.
StartExecutor ==
    /\ pc = "outer"
    /\ Len(batch_list) = 0
    /\ max_workers' = PoolSize(thread_count)
    /\ pc' = IF PoolSize(thread_count) <= 0 THEN "raised" ELSE "map"
    /\ UNCHANGED <<inputVars, faults, planVars, batch_list, thread_count, s_id, cursor,
                   proc_list, frameVars, process_results, chunk_df>>

Running == {k \in DOMAIN status : status[k] = "running"}

\* A pool thread takes the oldest queued work item and enters check_batch.
WorkerStart(j) ==
    /\ pc \in {"map", "shutdown"}
    /\ j \in DOMAIN status /\ status[j] = "pending"
    /\ \A k \in 1..(j - 1) : status[k] # "pending"
    /\ Cardinality(Running) < max_workers
    /\ EnterFrame(j)
    /\ UNCHANGED <<inputVars, faults, pc, planVars, batch_list, assignVars, cursor,
                   proc_list, sends, slept, outcome, process_results, chunk_df>>

\* MapResult that puts the newest result first.
MapResultPrepend ==
    /\ pc = "map"
    /\ cursor <= Len(proc_list) /\ status[cursor] = "done"
    /\ process_results' = <<result[cursor]>> \o process_results
    /\ cursor' = cursor + 1
    /\ UNCHANGED <<inputVars, faults, pc, planVars, batch_list, assignVars, proc_list,
                   frameVars, chunk_df>>

\* list(executor.map(...)) takes the next future's result, in submit order.
MapResult ==
    /\ pc = "map"
    /\ cursor <= Len(proc_list) /\ status[cursor] = "done"
    /\ process_results' = Append(process_results, result[cursor])
    /\ cursor' = cursor + 1
    /\ UNCHANGED <<inputVars, faults, pc, planVars, batch_list, assignVars, proc_list,
                   frameVars, chunk_df>>

\* The next future raised: the result iterator cancels the futures no thread
\* has taken yet and the exception leaves list(...).
MapRaise ==
    /\ pc = "map"
    /\ cursor <= Len(proc_list) /\ status[cursor] = "raised"
    /\ status' = [k \in DOMAIN status |->
                    IF status[k] = "pending" THEN "cancelled" ELSE status[k]]
    /\ pc' = "shutdown"
    /\ UNCHANGED <<inputVars, faults, planVars, batch_list, assignVars, cursor, proc_list,
                   retry_count, calls_failed, sleep_timer, result, sends, slept, outcome,
                   process_results, chunk_df>>

\* The with block's exit waits for the running threads, then the exception
\* leaves process_data.
Shutdown ==
    /\ pc = "shutdown"
    /\ Running = {}
    /\ pc' = "raised"
    /\ UNCHANGED <<inputVars, faults, planVars, batch_list, assignVars, cursor, proc_list,
                   frameVars, process_results, chunk_df>>

\* Every future has given its result: the with block ends.
MapDone ==
    /\ pc = "map"
    /\ cursor > Len(proc_list)
    /\ pc' = "concat"
    /\ UNCHANGED <<inputVars, faults, planVars, batch_list, assignVars, cursor, proc_list,
                   frameVars, process_results, chunk_df>>

\* --------------------------------------------- process_data: serial path
\* SerialCall that does not wait for the previous check_batch call.
SerialCallEager ==
    /\ pc \in {"serial", "call"}
    /\ Len(proc_list) < Len(batch_list)
    /\ proc_list' = Append(proc_list,
                           [api_server_id |-> 0, index |-> batch_list[Len(proc_list) + 1]])
    /\ status' = Append(status, "running")
    /\ retry_count' = Append(retry_count, 0)
    /\ calls_failed' = Append(calls_failed, 0)
    /\ sleep_timer' = Append(sleep_timer, SleepTimer)
    /\ result' = Append(result, <<>>)
    /\ sends' = Append(sends, <<>>)
    /\ slept' = Append(slept, <<>>)
    /\ outcome' = Append(outcome, "none")
    /\ pc' = "call"
    /\ UNCHANGED <<inputVars, faults, planVars, batch_list, assignVars, cursor,
                   process_results, chunk_df>>

\* `for batch in batch_list`: ApiCall(api_servers, 0, ...) and check_batch is entered.
SerialCall ==
    /\ pc = "serial"
    /\ cursor <= Len(batch_list)
    /\ proc_list' = Append(proc_list, [api_server_id |-> 0, index |-> batch_list[cursor]])
    /\ status' = Append(status, EnterStatus(0))
    /\ retry_count' = Append(retry_count, 0)
    /\ calls_failed' = Append(calls_failed, 0)
    /\ sleep_timer' = Append(sleep_timer, SleepTimer)
    /\ result' = Append(result, <<>>)
    /\ sends' = Append(sends, <<>>)
    /\ slept' = Append(slept, <<>>)
    /\ outcome' = Append(outcome, "none")
    /\ pc' = "call"
    /\ UNCHANGED <<inputVars, faults, planVars, batch_list, assignVars, cursor,
                   process_results, chunk_df>>

\* check_batch returned: process_results.append(batch_df)
SerialAppend ==
    /\ pc = "call"
    /\ status[cursor] = "done"
    /\ process_results' = Append(process_results, result[cursor])
    /\ cursor' = cursor + 1
    /\ pc' = "serial"
    /\ UNCHANGED <<inputVars, faults, planVars, batch_list, assignVars, proc_list,
                   frameVars, chunk_df>>

\* check_batch raised: the exception leaves the for loop and process_data.
SerialRaise ==
    /\ pc = "call"
    /\ status[cursor] = "raised"
    /\ pc' = "raised"
    /\ UNCHANGED <<inputVars, faults, planVars, batch_list, assignVars, cursor, proc_list,
                   frameVars, process_results, chunk_df>>

SerialDone ==
    /\ pc = "serial"
    /\ cursor > Len(batch_list)
    /\ pc' = "concat"
    /\ UNCHANGED <<inputVars, faults, planVars, batch_list, assignVars, cursor, proc_list,
                   frameVars, process_results, chunk_df>>

\* ------------------------------------------------------------- pd.concat
RECURSIVE Flatten(_)
Flatten(tables) ==
    IF tables = <<>> THEN <<>> ELSE Head(tables) \o Flatten(Tail(tables))

\* chunk_df = pd.concat(process_results, ignore_index=False); an empty list
\* is pd.concat's ValueError ("No objects to concatenate").
Concat ==
    /\ pc = "concat"
    /\ IF process_results = <<>>
       THEN pc' = "raised" /\ UNCHANGED chunk_df
       ELSE pc' = "returned" /\ chunk_df' = Flatten(process_results)
    /\ UNCHANGED <<inputVars, faults, planVars, batch_list, assignVars, cursor, proc_list,
                   frameVars, process_results>>

\* ------------------------------------------------------------------ Init
Init ==
    /\ nservers \in 1..MaxPool
    /\ server_info = [i \in 1..nservers |-> "200"]
    /\ si = nservers + 1
    /\ api_servers = [i \in 1..nservers |-> i]
    /\ vendor = VendorRow
    /\ server_sleep_timer = SleepTimer
    /\ in_index \in {IndexOf(n) : n \in 0..MaxRows}
    /\ api_batch_size \in 1..MaxBatchSize
    /\ multi_thread_mode \in BOOLEAN
    /\ down \in {{}} \cup {{s} : s \in 0..(nservers - 1)}
    /\ faults = MaxFaults
    /\ pc = "plan"
    /\ first_row = 0
    /\ batch_count = 0
    /\ batch_list = <<>>
    /\ thread_count = 0
    /\ s_id = 0
    /\ max_workers = 0
    /\ cursor = 1
    /\ proc_list = <<>>
    /\ status = <<>>
    /\ retry_count = <<>>
    /\ calls_failed = <<>>
    /\ sleep_timer = <<>>
    /\ result = <<>>
    /\ sends = <<>>
    /\ slept = <<>>
    /\ outcome = <<>>
    /\ process_results = <<>>
    /\ chunk_df = <<>>

Next ==
    \/ PlanBatch
    \/ ProcessData
    \/ AssignRound
    \/ AssignBatch
    \/ RoundDone
    \/ StartExecutor
    \/ \E j \in 1..MaxRows : WorkerStart(j)
    \/ \E j \in 1..MaxRows : Attempt(j)
    \/ MapResult
    \/ MapRaise
    \/ Shutdown
    \/ MapDone
    \/ SerialCall
    \/ SerialAppend
    \/ SerialRaise
    \/ SerialDone
    \/ Concat

Spec == Init /\ [][Next]_vars

\* The interpreter and the pool's threads keep running: a step that can be
\* taken is taken in the end (requests.post returns or raises, time.sleep ends).
SpecLive == Spec /\ WF_vars(Next)

\* ------------------------------------------- check_batch called on its own
\* check_batch(ApiCall(api_servers, s, refiner_fields, [payload, index])): one
\* batch, any server of the pool, and a network that may refuse every attempt.
InitRetry ==
    /\ nservers \in 1..MaxPool
    /\ server_info = [i \in 1..nservers |-> "200"]
    /\ si = nservers + 1
    /\ api_servers = [i \in 1..nservers |-> i]
    /\ vendor = VendorRow
    /\ server_sleep_timer = SleepTimer
    /\ in_index \in {IndexOf(n) : n \in 1..MaxBatchSize}
    /\ api_batch_size = Len(in_index)
    /\ multi_thread_mode = FALSE
    /\ down \in {{}} \cup {{s} : s \in 0..(nservers - 1)}
    /\ faults = RetryLimit
    /\ pc = "check_batch"
    /\ first_row = 0
    /\ batch_count = 0
    /\ batch_list = <<>>
    /\ thread_count = 0
    /\ s_id = 0
    /\ max_workers = 0
    /\ cursor = 1
    /\ proc_list \in {<<[api_server_id |-> s, index |-> in_index]>> : s \in 0..(nservers - 1)}
    /\ status = <<"running">>
    /\ retry_count = <<0>>
    /\ calls_failed = <<0>>
    /\ sleep_timer = <<server_sleep_timer>>
    /\ result = <<<<>>>>
    /\ sends = <<<<>>>>
    /\ slept = <<<<>>>>
    /\ outcome = <<"none">>
    /\ process_results = <<>>
    /\ chunk_df = <<>>

NextRetry == Attempt(1)

SpecRetry == InitRetry /\ [][NextRetry]_vars

\* ------------------------------------ Config.set_apis / get_apis: the pool
\* The keys of check_api's result dict: what the known-answer lookup can meet.
ResultCodes == {"200", "-1", "-7", "H1", "H2", "S1", "NA"}

\* ApiServer.check_api: result[str(result_code)]
CheckApi(code) ==
    CASE code = "200" -> "Working"
      [] code = "-1" -> "Test Lookup Address Failed"
      [] code = "-7" -> "Authentication Error"
      [] code = "H1" -> "Not Responding - host"
      [] code = "H2" -> "Not Responding - port"
      [] code = "S1" -> "XML responses"
      [] OTHER -> "Unexpected Result"

\* ConstructorRaises that lets a failed test lookup pass.
ConstructorRaisesLax(init_result) ==
    init_result \notin {"Working", "Test Lookup Address Failed"}

\* ApiServer.__init__: if self.init_result != 'Working': ... raise ApiSetupError
ConstructorRaises(init_result) == init_result # "Working"

\* One pass of `for si in api_server_info`: ApiServer(...) either raises, which
\* nothing in set_apis catches, or the server (online) is appended.
ConstructServer ==
    /\ pc = "set_apis"
    /\ si <= Len(server_info)
    /\ IF ConstructorRaises(CheckApi(server_info[si]))
       THEN /\ pc' = "config_error"
            /\ UNCHANGED <<si, api_servers, nservers>>
       ELSE /\ api_servers' = Append(api_servers, si)
            /\ nservers' = nservers + 1
            /\ si' = si + 1
            /\ UNCHANGED pc
    /\ UNCHANGED <<server_info, vendor, in_index, api_batch_size, multi_thread_mode, down,
                   server_sleep_timer, faults, planVars, batch_list, assignVars, cursor, proc_list, frameVars,
                   process_results, chunk_df>>

\* set_apis returns api_servers, Config is built, and the caller goes on to
\* check_data_frame.
SetApisDone ==
    /\ pc = "set_apis"
    /\ si > Len(server_info)
    /\ pc' = "plan"
    /\ UNCHANGED <<inputVars, faults, planVars, batch_list, assignVars, cursor, proc_list,
                   frameVars, process_results, chunk_df>>

\* Config(settings) with zero or more configured servers, then one call.
InitConfig ==
    /\ server_info \in UNION {[1..n -> ResultCodes] : n \in 0..MaxPool}
    /\ si = 1
    /\ api_servers = <<>>
    /\ nservers = 0
    /\ vendor = VendorRow
    /\ server_sleep_timer = SleepTimer
    /\ in_index \in {IndexOf(n) : n \in 0..MaxRows}
    /\ api_batch_size \in 1..MaxBatchSize
    /\ multi_thread_mode \in BOOLEAN
    /\ down \in {{}} \cup {{s} : s \in 0..(Len(server_info) - 1)}
    /\ faults = MaxFaults
    /\ pc = "set_apis"
    /\ first_row = 0
    /\ batch_count = 0
    /\ batch_list = <<>>
    /\ thread_count = 0
    /\ s_id = 0
    /\ max_workers = 0
    /\ cursor = 1
    /\ proc_list = <<>>
    /\ status = <<>>
    /\ retry_count = <<>>
    /\ calls_failed = <<>>
    /\ sleep_timer = <<>>
    /\ result = <<>>
    /\ sends = <<>>
    /\ slept = <<>>
    /\ outcome = <<>>
    /\ process_results = <<>>
    /\ chunk_df = <<>>

NextConfig ==
    \/ ConstructServer
    \/ SetApisDone
    \/ Next

SpecConfig == InitConfig /\ [][NextConfig]_vars

\* ------------------------------------------ call_api on drawn vendor values
\* Identifier values as the vendor's JSON can carry them, after astype(str).
RawIds ==
    {<<"1", "2", "3", ".", "0">>,
     <<"1", "2", "3", "4", "5", "6", "7", "8">>,
     <<"1", "2", "3", "4", "5", "6", "7", "8", "9", "0", "1", "2">>,
     <<"0", "0", "0", "0", "0", "1", "2", "3">>,
     <<"4", ".", "5", ".", "6">>,
     <<>>}

\* One answered call_api for one batch, the vendor's values drawn from RawIds.
InitNorm ==
    /\ nservers = 1
    /\ server_info = <<"200">>
    /\ si = 2
    /\ api_servers = <<1>>
    /\ vendor \in [UDPRN : RawIds, UPRN : RawIds, Closeness : {VendorRow.Closeness}]
    /\ server_sleep_timer = SleepTimer
    /\ in_index \in {IndexOf(n) : n \in 1..MaxBatchSize}
    /\ api_batch_size = Len(in_index)
    /\ multi_thread_mode = FALSE
    /\ down = {}
    /\ faults = 0
    /\ pc = "check_batch"
    /\ first_row = 0
    /\ batch_count = 0
    /\ batch_list = <<>>
    /\ thread_count = 0
    /\ s_id = 0
    /\ max_workers = 0
    /\ cursor = 1
    /\ proc_list = <<[api_server_id |-> 0, index |-> in_index]>>
    /\ status = <<"running">>
    /\ retry_count = <<0>>
    /\ calls_failed = <<0>>
    /\ sleep_timer = <<server_sleep_timer>>
    /\ result = <<<<>>>>
    /\ sends = <<<<>>>>
    /\ slept = <<<<>>>>
    /\ outcome = <<"none">>
    /\ process_results = <<>>
    /\ chunk_df = <<>>

NextNorm == Answered(1)

SpecNorm == InitNorm /\ [][NextNorm]_vars

\* ================================================================ claims
Range(f) == {f[x] : x \in DOMAIN f}

RECURSIVE SumSeq(_)
SumSeq(q) == IF q = <<>> THEN 0 ELSE Head(q) + SumSeq(Tail(q))

Ceil(n, b) == (n + b - 1) \div b

Terminal(j) == status[j] \in {"done", "raised"}

CallEnded == pc \in {"returned", "raised"}

IndexColumn(table) == [p \in 1..Len(table) |-> table[p].idx]

\* C1: whenever the call returns a dataset for a non-empty input, the returned
\* dataset has as many rows as the input.
C1_RowCountPreserved ==
    (pc = "returned" /\ Len(in_index) > 0) => Len(chunk_df) = Len(in_index)

\* C2: the index labels of the returned dataset are exactly the input's index
\* labels, each exactly once.
C2_IndicesExactlyOnce ==
    pc = "returned" =>
        LET out == IndexColumn(chunk_df) IN
        /\ Range(out) = Range(in_index)
        /\ \A l \in Range(in_index) : Cardinality({q \in DOMAIN out : out[q] = l}) = 1

\* Planning is over: the loop test has failed and api_data is complete.
Planned == pc = "plan" /\ ~(first_row < Len(in_index))

\* C3: for N rows and batch size B the planner produces ceil(N / B) batches,
\* each a contiguous slice of at most B rows with the rows' original labels,
\* and the batches concatenated in order are the input's index.
C3_BatchPlanning ==
    Planned =>
        LET N == Len(in_index)
            B == api_batch_size
        IN  /\ Len(batch_list) = Ceil(N, B)
            /\ batch_count = Ceil(N, B)
            /\ \A i \in 1..Len(batch_list) :
                /\ Len(batch_list[i]) <= B
                /\ batch_list[i] =
                     SubSeq(in_index, (i - 1) * B + 1, (i - 1) * B + Len(batch_list[i]))
            /\ Flatten(batch_list) = in_index

\* C3 witness: a plan of two batches whose last batch is short.
C3_Witness ==
    /\ Planned
    /\ Len(batch_list) = 2
    /\ Len(batch_list[2]) < api_batch_size
    /\ batch_list[2] = <<103>>

\* C4: an empty input plans zero batches and the call returns an empty dataset
\* instead of raising, in the concurrent and in the serial path.
C4_EmptyInputReturnsEmpty ==
    (Len(in_index) = 0 /\ pc \notin {"plan"}) =>
        /\ batch_count = 0
        /\ pc # "raised"
        /\ (pc = "returned" => chunk_df = <<>>)

\* The sleeps of a sequence whose first k attempts failed: 1, 4, 7, ...
Backoffs(k) == [i \in 1..k |-> 1 + 3 * (i - 1)]

RECURSIVE BackoffTotal(_)
BackoffTotal(k) == IF k = 0 THEN 0 ELSE BackoffTotal(k - 1) + (1 + 3 * (k - 1))

\* C5: a sequence that ends with an answered send after k < 10 refused ones has
\* made k + 1 sends, returns that answer's table, and has slept 1, 4, 7, ...
\* seconds in that order, sum_{i<k} (1 + 3i) in total.
C5_RetryRecovery ==
    \A j \in DOMAIN status :
        (status[j] = "done" /\ outcome[j] \in {"full", "degraded"}) =>
            LET k == calls_failed[j] IN
            /\ k < 10
            /\ Len(sends[j]) = k + 1
            /\ slept[j] = Backoffs(k)
            /\ SumSeq(slept[j]) = BackoffTotal(k)
            /\ Len(result[j]) = Len(proc_list[j].index)
            /\ IndexColumn(result[j]) = proc_list[j].index

\* C5 witness: a sequence answered on its tenth attempt, after nine refusals.
C5_Witness ==
    \E j \in DOMAIN status :
        /\ status[j] = "done"
        /\ outcome[j] = "full"
        /\ calls_failed[j] = 9
        /\ SumSeq(slept[j]) = 117

\* C6: a sequence all of whose sends were refused ends after exactly 10 sends by
\* returning, not raising, and the call is never aborted unless some batch
\* raised or there was no batch at all.
C6_RetryExhaustion ==
    /\ \A j \in DOMAIN status :
        /\ Len(sends[j]) <= 10
        /\ (status[j] \in {"done", "raised"} /\ calls_failed[j] = Len(sends[j])) =>
                status[j] = "done" /\ Len(sends[j]) = 10
    /\ pc = "raised" => (proc_list = <<>> \/ \E j \in DOMAIN status : status[j] = "raised")

\* C6 witness: the call returned although one batch used up its ten attempts
\* while another batch was answered.
C6_Witness ==
    /\ pc = "returned"
    /\ \E j \in DOMAIN status : status[j] = "done" /\ calls_failed[j] = 10
    /\ \E j \in DOMAIN status : status[j] = "done" /\ outcome[j] = "full"

\* C7: a response of fewer than 3 columns never fails the batch: the batch's
\* result has one row per batch row, each with the sentinel values.
C7_DegradedCompensation ==
    \A j \in DOMAIN status :
        outcome[j] = "degraded" =>
            /\ status[j] = "done"
            /\ Len(result[j]) = Len(proc_list[j].index)
            /\ \A p \in DOMAIN result[j] :
                /\ result[j][p].Closeness = <<"0">>
                /\ result[j][p].UDPRN = <<"0", "0", "0", "0", "0", "0", "0", "0">>
                /\ result[j][p].UPRN =
                     <<"0", "0", "0", "0", "0", "0", "0", "0", "0", "0", "0", "0">>

\* C8: in concurrent dispatch the i-th planned batch (0-based) goes to endpoint
\* i mod K, and every planned batch is assigned.
C8_RoundRobin ==
    Concurrent =>
        LET N == Len(in_index)
            B == api_batch_size
        IN  /\ \A j \in DOMAIN proc_list :
                /\ proc_list[j].api_server_id = (j - 1) % nservers
                /\ proc_list[j].index = SubSeq(in_index, (j - 1) * B + 1, Min(j * B, N))
            /\ pc \notin {"plan", "outer", "inner"} => Len(proc_list) = Ceil(N, B)

\* C8 witness: two endpoints, three batches, the third back on the first endpoint.
C8_Witness ==
    /\ nservers = 2
    /\ pc = "map"
    /\ Len(proc_list) = 3
    /\ proc_list[2].api_server_id = 1
    /\ proc_list[3].api_server_id = 0

\* C9: in serial mode the batches are sent in planning order to endpoint 0, one
\* at a time: a batch that has a successor is in a terminal state.
C9_SerialOrder ==
    ~Concurrent =>
        /\ Cardinality(Running) <= 1
        /\ \A j \in DOMAIN proc_list :
            /\ proc_list[j].index = batch_list[j]
            /\ Range(sends[j]) \subseteq {0}
            /\ j < Len(proc_list) => Terminal(j)

\* C9 witness: serial mode, the second batch has been sent after the first one
\* was retried and answered.
C9_Witness ==
    /\ ~Concurrent
    /\ Len(proc_list) >= 2
    /\ calls_failed[1] > 0
    /\ status[1] = "done"
    /\ sends[2] # <<>>

\* A batch's sequence ended in Fatal: a missing field or a transport error.
Fatal(j) == status[j] = "raised" /\ outcome[j] \in {"missing_field", "Error"}

\* C10: when the call has ended after a fatal failure in some batch's sequence,
\* every planned batch has still run its own sequence to a terminal state.
C10_BatchIndependence ==
    (CallEnded /\ \E j \in DOMAIN status : Fatal(j)) =>
        /\ Len(proc_list) = batch_count
        /\ \A j \in DOMAIN status : Terminal(j)

\* The configured servers whose startup verification answers 'Working'.
WorkingServers == {i \in DOMAIN server_info : CheckApi(server_info[i]) = "Working"}

\* Pool construction is over, with an error or with a pool.
Constructed == pc # "set_apis"

\* C11: a server that fails its startup verification is left out and the
\* construction goes on with the others: the pool is exactly the working
\* servers, and construction is fatal only when no server is working.
C11_FailedEndpointDropped ==
    Constructed =>
        /\ pc = "config_error" => WorkingServers = {}
        /\ pc # "config_error" => Range(api_servers) = WorkingServers

\* C12: a pool of zero servers is fatal at pool construction: the call never
\* goes past it, and no batch is ever given to a server.
C12_EmptyPoolIsFatal ==
    (Constructed /\ nservers = 0) =>
        /\ pc = "config_error"
        /\ proc_list = <<>>

\* The caller's columns at the time check_df is called: the address fields
\* and the 'api' column made from them.
InputColumns == {"address", "api"}

\* The vendor's fields.
VendorColumns == {"UDPRN", "UPRN", "Closeness"}

\* The columns of a table, its index left aside.
Columns(table) == UNION {DOMAIN table[p] : p \in DOMAIN table} \ {"idx"}

\* C13: the columns of a returned, non-empty dataset contain every input
\* column and the vendor's fields.
C13_InputColumnsKept ==
    (pc = "returned" /\ chunk_df # <<>>) =>
        (InputColumns \cup VendorColumns) \subseteq Columns(chunk_df)

\* The part of r before its first '.', all of r when it has none.
IntegerPart(r) ==
    LET dots == {i \in DOMAIN r : r[i] = "."}
        cut == IF dots = {} THEN Len(r) + 1
               ELSE CHOOSE i \in dots : \A k \in dots : i <= k
    IN  SubSeq(r, 1, cut - 1)

\* out is raw normalised to width w.
Normalised(out, raw, w) ==
    LET ip == IntegerPart(raw) IN
    /\ Len(out) = w
    /\ Len(ip) <= w =>
          /\ SubSeq(out, w - Len(ip) + 1, w) = ip
          /\ \A i \in 1..(w - Len(ip)) : out[i] = "0"
    /\ (Len(raw) = w /\ "." \notin Range(raw)) => out = raw
    /\ PadId(out, w) = out

\* C14: in every row of a fully parsed response UDPRN and UPRN are the vendor's
\* values cut at the first '.' and left-padded with zeros to 8 and 12
\* characters; "123.0" becomes "00000123", a value of full width is kept, and
\* normalising a normalised value changes nothing.
C14_IdNormalisation ==
    \A j \in DOMAIN status :
        (status[j] = "done" /\ outcome[j] = "full") =>
            \A p \in DOMAIN result[j] :
                /\ Normalised(result[j][p].UDPRN, vendor.UDPRN, UdprnWidth)
                /\ Normalised(result[j][p].UPRN, vendor.UPRN, UprnWidth)
                /\ vendor.UDPRN = <<"1", "2", "3", ".", "0">> =>
                      result[j][p].UDPRN = <<"0", "0", "0", "0", "0", "1", "2", "3">>

\* C14 witness: a parsed row whose UDPRN came as "123.0" and whose UPRN came at
\* full width.
C14_Witness ==
    /\ status = <<"done">> /\ outcome = <<"full">>
    /\ vendor.UDPRN = <<"1", "2", "3", ".", "0">>
    /\ Len(vendor.UPRN) = UprnWidth
    /\ result[1] # <<>>
    /\ result[1][1].UDPRN = <<"0", "0", "0", "0", "0", "1", "2", "3">>
    /\ result[1][1].UPRN = vendor.UPRN

\* C15: every batch result handed to the aggregation has as many rows as its
\* batch.
C15_ResultRowsMatchBatch ==
    \A p \in DOMAIN process_results :
        Len(process_results[p]) = Len(proc_list[p].index)

\* C16: a batch's sequence sleeps only when another attempt follows: at most
\* nine times, and fewer times than it has sent once it has ended.
C16_SleepOnlyBeforeRetry ==
    \A j \in DOMAIN status :
        /\ Len(slept[j]) <= RetryLimit - 1
        /\ Terminal(j) => Len(slept[j]) < Len(sends[j])

\* C17: a failure that is not a refused connection ends the sequence on that
\* attempt, and an ended sequence sends no further request.
C17_FatalNotRetried ==
    /\ [](\A j \in DOMAIN status :
             outcome[j] \in {"missing_field", "Error"} => status[j] = "raised")
    /\ [][\A j \in DOMAIN status :
             status[j] = "raised" => (sends'[j] = sends[j] /\ status'[j] = "raised")]_vars

\* C17 witness: a sequence ended by a response without the expected fields,
\* after refused attempts that were retried.
C17_Witness ==
    \E j \in DOMAIN status :
        /\ status[j] = "raised"
        /\ outcome[j] = "missing_field"
        /\ calls_failed[j] >= 2
        /\ Len(sends[j]) = calls_failed[j] + 1

\* The position of label l in the input.
Pos(l) == CHOOSE p \in DOMAIN in_index : in_index[p] = l

\* C18: in concurrent dispatch the rows of the returned dataset are in input
\* order whatever the order the batches ended in; when every batch result has
\* its rows, the returned index is the input's index.
C18_ConcurrentOrder ==
    (Concurrent /\ pc = "returned") =>
        LET out == IndexColumn(chunk_df) IN
        /\ \A p, q \in DOMAIN out : p < q => Pos(out[p]) < Pos(out[q])
        /\ (\A j \in DOMAIN result : Len(result[j]) = Len(proc_list[j].index)) =>
              out = in_index

\* C18 witness: a concurrent call of three batches returned all rows although
\* the first batch needed a retry and the later ones did not.
C18_Witness ==
    /\ Concurrent /\ pc = "returned"
    /\ Len(proc_list) = 3
    /\ calls_failed[1] > 0 /\ calls_failed[2] = 0 /\ calls_failed[3] = 0
    /\ Len(chunk_df) = Len(in_index)

Assigned(j) == IF Concurrent THEN (j - 1) % nservers ELSE 0

\* C20: every send of a batch's sequence goes to the server the batch was
\* given at dispatch.
C20_NoFailover ==
    \A j \in DOMAIN sends : \A t \in DOMAIN sends[j] : sends[j][t] = Assigned(j)

\* C20 witness: a batch given server 1 of two sent all its ten attempts there.
C20_Witness ==
    /\ nservers = 2
    /\ \E j \in DOMAIN sends :
        /\ Assigned(j) = 1
        /\ Len(sends[j]) = RetryLimit
        /\ status[j] = "done"

\* A check_batch frame exists for batch j.
Entered(j) == status[j] \notin {"pending", "cancelled"}

\* C21: the backoff belongs to the sequence: every sequence's backoff is the 1
\* second start plus 3 seconds for each of its own refused sends, its counters
\* follow its own sends and sleeps only, and the timer stored on the server is
\* never changed.
C21_PrivateBackoff ==
    /\ server_sleep_timer = 1
    /\ \A j \in DOMAIN status :
        Entered(j) =>
            /\ sleep_timer[j] = 1 + 3 * calls_failed[j]
            /\ calls_failed[j] = Len(slept[j])
            /\ calls_failed[j] <= Len(sends[j])
            /\ status[j] = "running" => retry_count[j] = Len(sends[j])

\* C21 witness: two sequences in progress on the same server at once, one
\* after two refused sends and the other at its first attempt.
C21_Witness ==
    /\ Concurrent
    /\ \E j, k \in DOMAIN status :
        /\ j # k
        /\ status[j] = "running" /\ status[k] = "running"
        /\ Target(j) = Target(k)
        /\ calls_failed[j] = 2 /\ sleep_timer[j] = 7
        /\ calls_failed[k] = 0 /\ sleep_timer[k] = 1

\* C22: a server is in the pool only if its startup verification returned
\* 'Working': every member of the pool, and every server a batch is given to
\* or sent to, is a configured server whose lookup met result code 200.
C22_OnlyVerifiedInPool ==
    /\ nservers = Len(api_servers)
    /\ \A k \in DOMAIN api_servers :
        /\ api_servers[k] \in DOMAIN server_info
        /\ server_info[api_servers[k]] = "200"
    /\ \A j \in DOMAIN sends : \A t \in DOMAIN sends[j] :
        /\ sends[j][t] + 1 \in DOMAIN api_servers
        /\ server_info[api_servers[sends[j][t] + 1]] = "200"

\* C22 witness: the second configured server failed authentication; the pool
\* holds the first server only.
C22_Witness ==
    /\ Len(server_info) = 2
    /\ server_info[2] = "-7"
    /\ si = 2
    /\ pc = "config_error"
    /\ api_servers = <<1>>

\* The index of the j-th batch of the plan.
PlannedBatch(j) ==
    SubSeq(in_index, (j - 1) * api_batch_size + 1, Min(j * api_batch_size, Len(in_index)))

\* The last send of batch j was answered with a table.
Succeeded(j) == outcome[j] \in {"full", "degraded"}

\* C23: every planned batch becomes exactly one unit of work, the j-th unit
\* being the j-th batch, none is left out when the call has ended, and a batch
\* whose send was answered sends no more.
C23_ExactlyOncePerBatch ==
    /\ \A j \in DOMAIN proc_list : proc_list[j].index = PlannedBatch(j)
    /\ Len(proc_list) <= batch_count
    /\ CallEnded => Len(proc_list) = batch_count
    /\ \A j \in DOMAIN status : Succeeded(j) => Terminal(j)

\* C24: with at least one server in the pool the call ends: planning, the
\* assignment and every batch's sequence come to an end, and the call returns
\* or raises with no sequence left in progress.
C24_Termination == <>[](CallEnded /\ Running = {} /\ ~(first_row < Len(in_index)))

\* C24 witness: a concurrent call of three batches has returned although one
\* batch used up its ten attempts.
C24_Witness ==
    /\ pc = "returned"
    /\ Concurrent
    /\ Len(proc_list) = 3
    /\ \E j \in DOMAIN status : calls_failed[j] = RetryLimit
    /\ \A j \in DOMAIN status : Terminal(j)

\* a can be had from b by leaving elements out.
RECURSIVE IsSubseq(_, _)
IsSubseq(a, b) ==
    IF a = <<>> THEN TRUE
    ELSE IF b = <<>> THEN FALSE
    ELSE IF Head(a) = Head(b) THEN IsSubseq(Tail(a), Tail(b))
    ELSE IsSubseq(a, Tail(b))

NoDuplicates(q) == \A x, y \in DOMAIN q : q[x] = q[y] => x = y

\* C25: whatever batches failed, a returned dataset's index is a
\* duplicate-free subsequence of the input's index, and the rows of a batch's
\* result carry labels of that batch only, at their own positions.
C25_IndexIsSubsequence ==
    /\ pc = "returned" =>
        /\ NoDuplicates(IndexColumn(chunk_df))
        /\ IsSubseq(IndexColumn(chunk_df), in_index)
    /\ \A j \in DOMAIN result :
        \A p \in DOMAIN result[j] :
            /\ p \in DOMAIN proc_list[j].index
            /\ result[j][p].idx = PlannedBatch(j)[p]

\* C25 witness: of three batches the middle one used up its attempts; the
\* returned dataset holds the first and the third row.
C25_Witness ==
    /\ pc = "returned"
    /\ Len(in_index) = 3
    /\ calls_failed[2] = RetryLimit
    /\ IndexColumn(chunk_df) = <<in_index[1], in_index[3]>>

====
